---- MODULE Spec2Model ----
(***************************************************************************)
(* Orchestration core of the tutoring system:                              *)
(*   - the teaching workflow (backend/workflows/teaching_workflow.py): a   *)
(*     stage graph over one TeachingState (backend/workflows/state.py);    *)
(*   - the reasoning-action cycle of the five ReAct agents                 *)
(*     (backend/agents/react/*_agent.py).                                  *)
(*                                                                         *)
(* Spec      : the workflow, from the public calls run() and               *)
(*             continue_with_response() to the value or exception the      *)
(*             caller receives.  An agent invocation made by a stage is    *)
(*             drawn from the set of results its cycle can extract, or it  *)
(*             raises.                                                     *)
(* FairSpec  : Spec with the graph executor always running the next stage. *)
(* CycleSpec : one agent invocation: oracle step, tool step, routing,      *)
(*             result extraction.                                          *)
(*                                                                         *)
(* The stage graph is the one wired by the add_edge/add_conditional_edges  *)
(* calls of _build_workflow and the node methods they name.                *)
(***************************************************************************)
EXTENDS Integers, Sequences, FiniteSets, TLC

VARIABLES
    api,        \* public call in progress: "idle" | "run" | "continue"
    pc,         \* stage the graph executor runs next; "END": workflow.invoke
                \* returned and st goes to the caller as TeachingState(**result);
                \* "raised": workflow.invoke raised and the exception goes to the caller
    st,         \* the TeachingState threaded through the graph; after "raised",
                \* the state the caller is left with (the one it passed in)
    passed,     \* the TeachingState handed to the call in progress
    fault,      \* why the call in progress raised: "none" | "agent" | "validation"
    failedStage,\* stage whose agent invocation raised
    reentries,  \* generate_explanation entries through the retry route, this call
    retryPending, \* the last routing after assessment took the retry route
    rcAtRetry,  \* retry_count when that route was taken
    assessed,   \* assess_understanding has run in this call
    cyc,        \* one agent invocation (CycleSpec)
    par,        \* two sessions through one workflow instance (PairSpec)
    db          \* the tables written through ProgressTracker and the state
                \* it is called on (GapSpec, SaveSpec)

vars == <<api, pc, st, passed, fault, failedStage, reentries,
          retryPending, rcAtRetry, assessed, cyc, par, db>>

solo == <<api, pc, st, passed, fault, failedStage, reentries,
          retryPending, rcAtRetry, assessed, cyc, db>>

wfvars == <<api, pc, st, passed, fault, failedStage, reentries,
            retryPending, rcAtRetry, assessed>>

----------------------------------------------------------------------------
(* Bounds of the model *)

\* generate_explanation re-entries are counted up to this value and then saturate
ReentryCap == 4

\* the mnemonic agent yields a new device only while fewer than this many are held
MaxDevices == 2

\* action requests the oracle makes in one agent invocation
MaxRequests == 3

\* rows the knowledge-gap table holds
MaxGaps == 3

\* calls of save_session_data on one session state
MaxSaves == 3

----------------------------------------------------------------------------
(* Values *)

NONE == "None"

\* TeachingState.max_retries default
DefaultMaxRetries == 3

\* _should_generate_mnemonic: len(explanation) > 300
MnemonicLengthThreshold == 300

\* Sample explanation texts; what the code looks at is their length, whether
\* they hold a decimal digit and whether they hold one of the keywords.
TextConcept  == "A derivative measures rate of change"
TextNumeric  == "Inflation reached 4% in 2023"
TextKeyword  == "tax rate rule (keyword, no digit)"
TextLong     == "conceptual text of 301 characters"
TextAtLimit  == "conceptual text of 300 characters"

Texts == {TextConcept, TextNumeric, TextKeyword, TextLong, TextAtLimit}

TextLen(t) ==
    CASE t = NONE        -> 0
      [] t = ""          -> 0
      [] t = TextConcept -> 36
      [] t = TextNumeric -> 28
      [] t = TextKeyword -> 33
      [] t = TextLong    -> 301
      [] t = TextAtLimit -> 300
      [] OTHER           -> 0

\* re.search(r"\d", explanation)
HasDigit(t) == t \in {TextNumeric}

\* any(k in explanation for k in keywords)
HasKeyword(t) == t \in {TextNumeric, TextKeyword}

\* Python truthiness of an Optional[str]
Truthy(t) == t # NONE /\ t # ""

AssessmentResults == {"fully_understood", "partially_understood", "not_understood"}
ConfidenceLevels  == {"low", "medium", "medium_high", "high"}
Intents           == {"learn", "practice", "progress", "review", "other"}
StateNextActions  == {"continue", "retry", "end", "adaptive_followup"}
BaselineLevels    == {"beginner", "intermediate", "advanced"}

\* The Literal-typed fields of TeachingState: a state is constructed (and so
\* handed to a node, a routing function or the caller) only with these values.
TeachingStateAdmits(s) ==
    /\ s.intent \in Intents \cup {NONE}
    /\ s.next_action \in StateNextActions \cup {NONE}
    /\ s.assessment_result \in AssessmentResults \cup {NONE}
    /\ s.confidence_level \in ConfidenceLevels \cup {NONE}
    /\ s.baseline_level \in BaselineLevels \cup {NONE}

\* variant: a fresh session starts past its retry limit
create_initial_state_past_limit(question) ==
    [ question_text          |-> question,
      intent                 |-> NONE,
      baseline_level         |-> NONE,
      retrieved_concepts     |-> <<>>,
      needs_validation       |-> FALSE,
      validation_result      |-> NONE,
      skip_validation        |-> FALSE,
      explanation            |-> NONE,
      mnemonic_devices       |-> <<>>,
      skip_mnemonic          |-> FALSE,
      comprehension_questions|-> <<>>,
      learner_response       |-> NONE,
      assessment_result      |-> NONE,
      confidence_level       |-> NONE,
      next_action            |-> NONE,
      retry_count            |-> DefaultMaxRetries + 1,
      max_retries            |-> DefaultMaxRetries,
      learning_efficiency    |-> NONE,
      review_reminders       |-> <<>>,
      knowledge_gaps         |-> <<>>,
      workflow_stage         |-> "initialized",
      error_message          |-> NONE ]

\* create_initial_state(learner_id, goal_id, tenant_id, question_text, ...)
create_initial_state(question) ==
    [ question_text          |-> question,
      intent                 |-> NONE,
      baseline_level         |-> NONE,
      retrieved_concepts     |-> <<>>,
      needs_validation       |-> FALSE,
      validation_result      |-> NONE,
      skip_validation        |-> FALSE,
      explanation            |-> NONE,
      mnemonic_devices       |-> <<>>,
      skip_mnemonic          |-> FALSE,
      comprehension_questions|-> <<>>,
      learner_response       |-> NONE,
      assessment_result      |-> NONE,
      confidence_level       |-> NONE,
      next_action            |-> NONE,
      retry_count            |-> 0,
      max_retries            |-> DefaultMaxRetries,
      learning_efficiency    |-> NONE,
      review_reminders       |-> <<>>,
      knowledge_gaps         |-> <<>>,
      workflow_stage         |-> "initialized",
      error_message          |-> NONE ]

----------------------------------------------------------------------------
(* Assessment tools (backend/agents/tools/knowledge_assessor_tools.py) *)

\* assess_understanding_level.  The lists are seen through their sizes:
\*   nUnderstood = len(key_points_understood)
\*   covered     = number of understood key points that contain an expected one
\*   nExpected   = len(expected_key_points)
\*   nMis        = len(misunderstandings)
\*   respLen     = len(learner_response.strip()),  negative = a negative keyword occurs
\* coverage is the fraction covNum / covDen; x >= 0.8 is 10 * covNum >= 8 * covDen.
assess_understanding_level(nUnderstood, covered, nExpected, nMis, respLen, negative) ==
    LET capped   == IF nUnderstood >= 3 THEN 3 ELSE nUnderstood
        covNum   == IF nExpected > 0 THEN covered ELSE capped
        covDen   == IF nExpected > 0 THEN nExpected ELSE 3
        AtLeast(tenths) == 10 * covNum >= tenths * covDen
        serious  == nMis >= 2
        minor    == nMis = 1
    IN  IF respLen < 10
          THEN [assessment_result |-> "not_understood", confidence_level |-> "low"]
        ELSE IF negative
          THEN [assessment_result |-> "not_understood", confidence_level |-> "low"]
        ELSE IF AtLeast(8) /\ ~serious
          THEN [assessment_result |-> "fully_understood",
                confidence_level  |-> IF AtLeast(9) THEN "high" ELSE "medium_high"]
        ELSE IF AtLeast(5) \/ (AtLeast(3) /\ ~serious)
          THEN [assessment_result |-> "partially_understood",
                confidence_level  |-> IF minor THEN "medium" ELSE "medium_high"]
        ELSE [assessment_result |-> "not_understood",
              confidence_level  |-> IF serious THEN "low" ELSE "medium"]

\* decide_next_action (the definition in force: the last one of the module)
decide_next_action(assessment_result, retry_count, max_retries) ==
    IF assessment_result = "fully_understood" THEN "continue"
    ELSE IF assessment_result = "partially_understood" THEN "adaptive_followup"
    ELSE IF assessment_result = "not_understood"
      THEN (IF retry_count < max_retries THEN "retry" ELSE "record_gap")
    ELSE "continue"

----------------------------------------------------------------------------
(* What an agent invocation can hand back to the stage that made it.       *)
(* The oracle chooses the actions and their arguments, so every result of  *)
(* a capability is a possible observation; an invocation in which the      *)
(* oracle requests no matching action leaves the output field unset.       *)

\* arguments the oracle may give assess_understanding_level
AssessArgs ==
    [ nUnderstood : {4}, covered : {1, 2, 4}, nExpected : {4, 5},
      nMis : {0}, respLen : {9, 10}, negative : {FALSE} ]

NoAssessment == [assessment_result |-> NONE, confidence_level |-> NONE]

\* invoke_knowledge_assessor(task_type="assess_understanding"): the fields
\* extract_result takes from the assess_understanding_level observation
AssessOutcomes ==
    { assess_understanding_level(a.nUnderstood, a.covered, a.nExpected,
                                 a.nMis, a.respLen, a.negative) : a \in AssessArgs }
    \cup {NoAssessment}

\* invoke_knowledge_assessor(task_type="recommend_next_action"): next_action
\* is the decide_next_action observation.  assessment_result is an argument
\* the oracle writes; retry_count and max_retries are filled from the state
\* when the oracle omits them, and are the oracle's otherwise.
NextActionOutcomes(s) ==
    { decide_next_action(a, r, m) :
        a \in AssessmentResults \cup {NONE},
        r \in {s.retry_count, 0, s.max_retries},
        m \in {s.max_retries} }
    \cup {NONE}

\* evaluate_baseline: the "level" of the evaluate_knowledge_baseline
\* observation is text parsed from the oracle's reply
BaselineOutcomes == {NONE, "beginner", "unlisted_level"}

\* retrieve_knowledge: the retrieved concepts, each seen as whether it
\* carries formulas or rules
ConceptOutcomes == { <<>>, << [formulas_or_rules |-> FALSE],
                           [formulas_or_rules |-> TRUE] >> }

\* generate_explanation / adaptive_followup: the explanation field of the
\* agent's final state
ExplanationOutcomes == {NONE, TextConcept, TextNumeric, TextAtLimit, TextLong}

\* generate_questions
QuestionOutcomes == { <<>>, << [question_text |-> "q1", expected_key_points |-> 4] >> }

\* validate_content
ValidationOutcomes == {NONE, "verdict"}

\* the devices generated in a session, told apart by their position
DeviceNames == << "device 1", "device 2", "device 3", "device 4" >>

\* generate_mnemonic: the generated device, if any
MnemonicOutcomes(s) ==
    IF Len(s.mnemonic_devices) < MaxDevices
      THEN {NONE, DeviceNames[Len(s.mnemonic_devices) + 1]}
      ELSE {NONE}

\* learner answers a caller can supply
LearnerResponses == {"a long enough answer"}

\* questions a caller can ask
Questions == {"", "what is a derivative?"}

----------------------------------------------------------------------------
(* Routing functions of the teaching workflow *)

\* variant of route_by_intent that sends every intent down the learning path
route_by_intent_learn_only(s) == "learn"

\* _route_by_intent
route_by_intent(s) ==
    LET intent == IF s.intent = NONE THEN "learn" ELSE s.intent
    IN  IF intent \in {"learn", "practice", "progress", "review"} THEN intent ELSE "other"

\* variant of should_validate_content without the skip_validation test
should_validate_content_unsuppressed(s) ==
    IF ~Truthy(s.explanation) THEN "skip"
    ELSE IF HasKeyword(s.explanation) THEN "validate"
    ELSE IF HasDigit(s.explanation) THEN "validate"
    ELSE "skip"

\* variant of should_validate_content without the keyword scan
should_validate_content_digits_only(s) ==
    IF s.skip_validation THEN "skip"
    ELSE IF ~Truthy(s.explanation) THEN "skip"
    ELSE IF HasDigit(s.explanation) THEN "validate"
    ELSE "skip"

\* _should_validate_content
should_validate_content(s) ==
    IF s.skip_validation THEN "skip"
    ELSE IF ~Truthy(s.explanation) THEN "skip"
    ELSE IF HasKeyword(s.explanation) THEN "validate"
    ELSE IF HasDigit(s.explanation) THEN "validate"
    ELSE "skip"

\* variant of should_generate_mnemonic that looks at the length of the
\* explanation only
should_generate_mnemonic_by_length(s) ==
    IF s.skip_mnemonic THEN "skip"
    ELSE IF TextLen(s.explanation) > MnemonicLengthThreshold THEN "generate"
    ELSE "skip"

\* variant of should_generate_mnemonic whose length test admits the threshold
should_generate_mnemonic_at_threshold(s) ==
    IF s.skip_mnemonic THEN "skip"
    ELSE IF s.assessment_result = "not_understood" THEN "generate"
    ELSE IF TextLen(s.explanation) >= MnemonicLengthThreshold THEN "generate"
    ELSE "skip"

\* _should_generate_mnemonic
should_generate_mnemonic(s) ==
    IF s.skip_mnemonic THEN "skip"
    ELSE IF s.assessment_result = "not_understood" THEN "generate"
    ELSE IF TextLen(s.explanation) > MnemonicLengthThreshold THEN "generate"
    ELSE "skip"

\* _route_after_assessment
route_after_assessment(s) ==
    IF s.next_action # NONE THEN s.next_action
    ELSE IF s.assessment_result = "fully_understood" THEN "continue"
    ELSE IF s.assessment_result = "partially_understood" THEN "adaptive_followup"
    ELSE IF s.retry_count < s.max_retries THEN "retry"
    ELSE "record_gap"

\* _check_needs_validation
check_needs_validation(concepts) ==
    \E i \in 1..Len(concepts) : concepts[i].formulas_or_rules

\* The path maps given to add_conditional_edges, and the plain edges
IntentEdges ==
    [ learn |-> "evaluate_baseline", practice |-> "assessment_entry",
      progress |-> "progress_entry", review |-> "review_entry",
      other |-> "other_entry" ]

ValidateEdges == [ validate |-> "validate_content", skip |-> "generate_explanation" ]

MnemonicEdges == [ generate |-> "generate_mnemonic", skip |-> "create_comprehension_check" ]

AssessmentEdges ==
    [ continue |-> "update_progress", adaptive_followup |-> "adaptive_followup",
      retry |-> "generate_explanation", record_gap |-> "record_gap" ]

\* the plain edges of _build_workflow (add_edge)
PlainEdges ==
    { <<"initialize", "detect_intent">>,
      <<"evaluate_baseline", "retrieve_knowledge">>,
      <<"validate_content", "generate_explanation">>,
      <<"generate_mnemonic", "create_comprehension_check">>,
      <<"create_comprehension_check", "wait_for_response">>,
      <<"wait_for_response", "assess_understanding">>,
      <<"adaptive_followup", "create_comprehension_check">>,
      <<"update_progress", "finalize">>,
      <<"record_gap", "finalize">>,
      <<"progress_entry", "finalize">>,
      <<"review_entry", "finalize">>,
      <<"assessment_entry", "finalize">>,
      <<"other_entry", "finalize">>,
      <<"finalize", "END">> }

\* the sources of the conditional routes (add_conditional_edges)
ConditionalSources ==
    { "detect_intent", "retrieve_knowledge", "generate_explanation",
      "assess_understanding" }

Range(f) == { f[k] : k \in DOMAIN f }

\* every stage named by set_entry_point, add_edge or add_conditional_edges
EdgeStages ==
    {"initialize"}
    \cup { e[1] : e \in PlainEdges } \cup { e[2] : e \in PlainEdges }
    \cup ConditionalSources
    \cup Range(IntentEdges) \cup Range(ValidateEdges)
    \cup Range(MnemonicEdges) \cup Range(AssessmentEdges)

\* the stages _build_workflow registers with add_node (the other add_node
\* calls are commented out)
RegisteredStages == { "initialize", "detect_intent", "finalize" }

\* _build_workflow: the graph is compiled only if every stage an edge names
\* is a registered stage (or the END marker)
build_workflow ==
    IF EdgeStages \subseteq RegisteredStages \cup {"END"}
      THEN "compiled" ELSE "raises"

\* stages that come before the wait_for_response boundary on the learning path
PreBoundaryStages ==
    { "initialize", "detect_intent", "evaluate_baseline", "retrieve_knowledge",
      "validate_content", "generate_explanation", "generate_mnemonic",
      "create_comprehension_check" }

----------------------------------------------------------------------------
(* The public calls *)

\* TeachingState values a caller can build for continue_with_response: a
\* learn session standing at the wait_for_response boundary
BoundaryCases ==
    { <<TextConcept, 0, FALSE, FALSE>>,
      <<TextNumeric, 0, FALSE, FALSE>>,
      <<TextNumeric, 0, TRUE,  FALSE>>,
      <<TextKeyword, 0, FALSE, FALSE>>,
      <<TextConcept, 0, FALSE, TRUE>>,
      <<TextConcept, DefaultMaxRetries, FALSE, FALSE>>,
      <<TextNumeric, DefaultMaxRetries, TRUE, TRUE>> }

BoundaryStates ==
    { [ create_initial_state("what is a derivative?") EXCEPT
          !.intent = "learn",
          !.explanation = c[1],
          !.comprehension_questions =
              << [question_text |-> "q0", expected_key_points |-> 4] >>,
          !.retry_count = c[2],
          !.skip_validation = c[3],
          !.skip_mnemonic = c[4],
          !.workflow_stage = "waiting_for_response" ] :
        c \in BoundaryCases }

CallerStates == BoundaryStates

StartCall(kind, s) ==
    /\ api = "idle"
    /\ pc = "idle"
    /\ api' = kind
    /\ st' = s
    /\ passed' = s
    /\ pc' = "initialize"      \* graph.set_entry_point("initialize")
    /\ fault' = "none"
    /\ failedStage' = NONE
    /\ reentries' = 0
    /\ retryPending' = FALSE
    /\ rcAtRetry' = 0
    /\ assessed' = FALSE
    /\ UNCHANGED <<cyc, par, db>>

\* run(): workflow.invoke(create_initial_state(...))
run ==
    \E q \in Questions : StartCall("run", create_initial_state(q))

\* continue_with_response(state, learner_response): workflow.invoke(state)
continue_with_response ==
    \E s \in CallerStates, resp \in LearnerResponses :
        StartCall("continue", [s EXCEPT !.learner_response = resp])

----------------------------------------------------------------------------
(* Stages.  A stage writes its update into the state and the executor      *)
(* follows the edge that leaves it; the state read next is constructed     *)
(* from the written values, which fails when the state type rejects them.  *)

hist == <<reentries, retryPending, rcAtRetry, assessed>>

Goto(s, target) ==
    /\ failedStage' = failedStage
    /\ IF TeachingStateAdmits(s)
         THEN pc' = target /\ fault' = fault /\ st' = s
         ELSE pc' = "raised" /\ fault' = "validation" /\ st' = passed

\* an agent invocation (agent.invoke inside invoke_*) raises in a stage: no
\* stage and no public call has an exception handler around it
AgentRaises(stage) ==
    /\ pc' = "raised"
    /\ fault' = "agent"
    /\ failedStage' = stage
    /\ st' = passed

Running(stage) == api # "idle" /\ pc = stage

\* _initialize_node
initialize_node ==
    /\ Running("initialize")
    /\ Goto([st EXCEPT !.workflow_stage = "initialized"], "detect_intent")
    /\ UNCHANGED <<api, passed, hist, cyc, par, db>>

\* replies of the oracle to the intent prompt, after strip().lower();
\* "RAISES" stands for llm.invoke raising
IntentReplies ==
    {"learn", " Practice\n", "progress", "review", "other", "chat", "", "RAISES"}

\* (resp.content or "").strip().lower()
StripLower(reply) ==
    CASE reply = " Practice\n" -> "practice"
      [] OTHER -> reply

DetectableIntents == {"learn", "practice", "progress", "review"}

\* variant of detected_intent that keeps whatever the oracle wrote
detected_intent_unchecked(question_text, reply) ==
    IF ~Truthy(question_text) THEN "learn"
    ELSE IF reply = "RAISES" THEN "learn"
    ELSE StripLower(reply)

\* variant of detected_intent whose set of known intents also holds other
detected_intent_with_other(question_text, reply) ==
    IF ~Truthy(question_text) THEN "learn"
    ELSE LET raw == IF reply = "RAISES" THEN "learn" ELSE StripLower(reply)
         IN  IF raw \notin DetectableIntents \cup {"other"} THEN "learn" ELSE raw

\* the intent _detect_intent_node stores for the oracle's reply
detected_intent(question_text, reply) ==
    IF ~Truthy(question_text) THEN "learn"
    ELSE LET raw == IF reply = "RAISES" THEN "learn" ELSE StripLower(reply)
         IN  IF raw \notin DetectableIntents THEN "learn" ELSE raw

\* _detect_intent_node
detect_intent_node ==
    /\ Running("detect_intent")
    /\ \E reply \in IntentReplies :
         LET s == [st EXCEPT !.intent = detected_intent(st.question_text, reply),
                             !.workflow_stage = "intent_detected"]
         IN  Goto(s, IntentEdges[route_by_intent(s)])
    /\ UNCHANGED <<api, passed, hist, cyc, par, db>>

\* _evaluate_baseline_node
evaluate_baseline_node ==
    /\ Running("evaluate_baseline")
    /\ \/ AgentRaises("evaluate_baseline")
       \/ \E lvl \in BaselineOutcomes :
            Goto([st EXCEPT !.baseline_level = lvl,
                            !.workflow_stage = "baseline_evaluated"],
                 "retrieve_knowledge")
    /\ UNCHANGED <<api, passed, hist, cyc, par, db>>

\* _retrieve_knowledge_node
retrieve_knowledge_node ==
    /\ Running("retrieve_knowledge")
    /\ \/ AgentRaises("retrieve_knowledge")
       \/ \E concepts \in ConceptOutcomes :
            LET s == [st EXCEPT !.retrieved_concepts = concepts,
                                !.needs_validation = check_needs_validation(concepts),
                                !.workflow_stage = "knowledge_retrieved"]
            IN  Goto(s, ValidateEdges[should_validate_content(s)])
    /\ UNCHANGED <<api, passed, hist, cyc, par, db>>

\* _validate_content_node
validate_content_node ==
    /\ Running("validate_content")
    /\ IF st.skip_validation \/ ~Truthy(st.explanation)
         THEN Goto([st EXCEPT !.workflow_stage = "validation_skipped"],
                   "generate_explanation")
         ELSE \/ AgentRaises("validate_content")
              \/ \E v \in ValidationOutcomes :
                   Goto([st EXCEPT !.validation_result = v,
                                   !.workflow_stage = "content_validated"],
                        "generate_explanation")
    /\ UNCHANGED <<api, passed, hist, cyc, par, db>>

\* _generate_explanation_node
generate_explanation_node ==
    /\ Running("generate_explanation")
    /\ \/ AgentRaises("generate_explanation")
       \/ \E e \in ExplanationOutcomes :
            LET s == [st EXCEPT !.explanation = e,
                                !.workflow_stage = "explanation_generated"]
            IN  Goto(s, MnemonicEdges[should_generate_mnemonic(s)])
    /\ UNCHANGED <<api, passed, hist, cyc, par, db>>

\* variant of the guard below that looks at the flag only
MnemonicNodeSkipsOnFlagOnly(s) == s.skip_mnemonic

\* the early return of _generate_mnemonic_node
MnemonicNodeSkips(s) ==
    s.skip_mnemonic \/ s.assessment_result = "fully_understood"

\* variant of mnemonic_devices_after that puts the new device first
mnemonic_devices_prepended(s, generated) ==
    IF generated # NONE THEN <<generated>> \o s.mnemonic_devices
    ELSE s.mnemonic_devices

\* devices = list(state.mnemonic_devices); if generated: devices.append(generated)
mnemonic_devices_after(s, generated) ==
    IF generated # NONE THEN Append(s.mnemonic_devices, generated)
    ELSE s.mnemonic_devices

\* _generate_mnemonic_node
generate_mnemonic_node ==
    /\ Running("generate_mnemonic")
    /\ IF MnemonicNodeSkips(st)
         THEN Goto([st EXCEPT !.workflow_stage = "mnemonic_skipped"],
                   "create_comprehension_check")
         ELSE \/ AgentRaises("generate_mnemonic")
              \/ \E generated \in MnemonicOutcomes(st) :
                   LET devices == mnemonic_devices_after(st, generated)
                   IN  Goto([st EXCEPT !.mnemonic_devices = devices,
                                       !.workflow_stage = "mnemonic_generated"],
                            "create_comprehension_check")
    /\ UNCHANGED <<api, passed, hist, cyc, par, db>>

\* _create_comprehension_check_node
create_comprehension_check_node ==
    /\ Running("create_comprehension_check")
    /\ \/ AgentRaises("create_comprehension_check")
       \/ \E qs \in QuestionOutcomes :
            Goto([st EXCEPT !.comprehension_questions = qs,
                            !.workflow_stage = "comprehension_check_created"],
                 "wait_for_response")
    /\ UNCHANGED <<api, passed, hist, cyc, par, db>>

\* _wait_for_response_node, left by the edge wait_for_response -> assess_understanding
wait_for_response_node ==
    /\ Running("wait_for_response")
    /\ Goto([st EXCEPT !.workflow_stage = "waiting_for_response"],
            "assess_understanding")
    /\ UNCHANGED <<api, passed, hist, cyc, par, db>>

Min(a, b) == IF a < b THEN a ELSE b

\* The executor leaves assess_understanding by _route_after_assessment and
\* the path map of add_conditional_edges; a key outside the map has no stage.
AfterAssessment(s) ==
    LET key == route_after_assessment(s)
    IN  /\ failedStage' = failedStage
        /\ assessed' = TRUE
        /\ IF ~TeachingStateAdmits(s)
             THEN /\ pc' = "raised" /\ fault' = "validation" /\ st' = passed
                  /\ UNCHANGED <<reentries, retryPending, rcAtRetry>>
           ELSE IF key \notin DOMAIN AssessmentEdges
             THEN /\ pc' = "raised" /\ fault' = "routing" /\ st' = passed
                  /\ UNCHANGED <<reentries, retryPending, rcAtRetry>>
           ELSE /\ pc' = AssessmentEdges[key]
                /\ st' = s
                /\ fault' = fault
                /\ retryPending' = (key = "retry")
                /\ rcAtRetry' = s.retry_count
                /\ reentries' = IF key = "retry"
                                  THEN Min(reentries + 1, ReentryCap)
                                  ELSE reentries

\* _assess_understanding_node
assess_understanding_node ==
    /\ Running("assess_understanding")
    /\ IF ~Truthy(st.learner_response)
         THEN AfterAssessment([st EXCEPT !.assessment_result = "not_understood",
                                         !.workflow_stage = "assessment_failed"])
         ELSE \/ /\ AgentRaises("assess_understanding")
                 /\ assessed' = TRUE
                 /\ UNCHANGED <<reentries, retryPending, rcAtRetry>>
              \/ \E a \in AssessOutcomes, n \in NextActionOutcomes(st) :
                   AfterAssessment(
                       [st EXCEPT !.assessment_result = a.assessment_result,
                                  !.confidence_level = a.confidence_level,
                                  !.next_action = n,
                                  !.workflow_stage = "understanding_assessed"])
    /\ UNCHANGED <<api, passed, cyc, par, db>>

\* _adaptive_followup_node: the agent's final state always has the key
\* "explanation", so its value (None when nothing was produced) is taken
adaptive_followup_node ==
    /\ Running("adaptive_followup")
    /\ \/ AgentRaises("adaptive_followup")
       \/ \E e \in ExplanationOutcomes :
            Goto([st EXCEPT !.explanation = e,
                            !.workflow_stage = "followup_generated"],
                 "create_comprehension_check")
    /\ UNCHANGED <<api, passed, hist, cyc, par, db>>

GapOutcomes == { <<>>, << "gap" >> }

\* _update_progress_node
update_progress_node ==
    /\ Running("update_progress")
    /\ IF st.assessment_result # "fully_understood"
         THEN Goto([st EXCEPT !.workflow_stage = "progress_skipped"], "finalize")
         ELSE \/ AgentRaises("update_progress")
              \/ \E gaps \in GapOutcomes :
                   Goto([st EXCEPT !.knowledge_gaps = gaps,
                                   !.workflow_stage = "progress_updated"],
                        "finalize")
    /\ UNCHANGED <<api, passed, hist, cyc, par, db>>

\* _record_gap_node
record_gap_node ==
    /\ Running("record_gap")
    /\ Goto([st EXCEPT !.workflow_stage = "gap_recorded"], "finalize")
    /\ UNCHANGED <<api, passed, hist, cyc, par, db>>

\* _finalize_node, left by the edge finalize -> END
finalize_node ==
    /\ Running("finalize")
    /\ Goto([st EXCEPT !.workflow_stage = "completed"], "END")
    /\ UNCHANGED <<api, passed, hist, cyc, par, db>>

EfficiencyOutcomes == {NONE, "metrics"}
ReviewOutcomes == { <<>>, << "reminder" >> }

\* _progress_entry_node
progress_entry_node ==
    /\ Running("progress_entry")
    /\ \/ AgentRaises("progress_entry")
       \/ \E m \in EfficiencyOutcomes :
            Goto([st EXCEPT !.learning_efficiency = m,
                            !.workflow_stage = "progress_overview_generated"],
                 "finalize")
    /\ UNCHANGED <<api, passed, hist, cyc, par, db>>

\* _review_entry_node
review_entry_node ==
    /\ Running("review_entry")
    /\ \/ AgentRaises("review_entry")
       \/ \E r \in ReviewOutcomes :
            Goto([st EXCEPT !.review_reminders = r,
                            !.workflow_stage = "review_recommendations_generated"],
                 "finalize")
    /\ UNCHANGED <<api, passed, hist, cyc, par, db>>

\* _assessment_entry_node
assessment_entry_node ==
    /\ Running("assessment_entry")
    /\ \/ AgentRaises("assessment_entry")
       \/ \E a \in AssessOutcomes :
            Goto([st EXCEPT !.assessment_result = a.assessment_result,
                            !.confidence_level = a.confidence_level,
                            !.workflow_stage = "assessment_only_completed"],
                 "finalize")
    /\ UNCHANGED <<api, passed, hist, cyc, par, db>>

\* _other_entry_node
other_entry_node ==
    /\ Running("other_entry")
    /\ Goto([st EXCEPT !.intent = "learn", !.workflow_stage = "fallback_to_learn"],
            "finalize")
    /\ UNCHANGED <<api, passed, hist, cyc, par, db>>

----------------------------------------------------------------------------
(* The workflow specification *)


\* no agent invocation under way
NoCycle ==
    [ agent |-> NONE, at |-> "idle", messages |-> << >>, requests |-> 0,
      invoked |-> {}, validation_result |-> NONE, result |-> NONE,
      raisedBy |-> NONE, task_type |-> NONE, output |-> 0,
      tenants |-> {}, key_points_understood |-> 0,
      misunderstandings |-> 0 ]

\* the sessions that share the workflow instance in PairSpec
Sessions == {1, 2}

\* no session has been started
NoPair ==
    [ heap |-> << >>,
      sess |-> [ i \in Sessions |->
                   [ pc    |-> "idle",
                     st    |-> create_initial_state(""),
                     alone |-> create_initial_state(""),
                     given |-> 0 ] ] ]

\* the part of a TeachingState save_session_data reads and writes; a
\* record id is the position of the record in its table, 0 for None
NoSession ==
    [ opened |-> FALSE, session_id |-> NONE, question_text |-> NONE,
      explanation |-> NONE, learner_response |-> NONE,
      question_id |-> 0, explanation_id |-> 0, check_id |-> 0,
      workflow_stage |-> "initialized", error_message |-> NONE ]

\* empty tables, no state handed to the tracker yet
NoDb ==
    [ gaps |-> << >>, sess |-> NoSession, questions |-> << >>,
      explanations |-> << >>, checks |-> << >>, saves |-> 0 ]

Init ==
    /\ api = "idle"
    /\ pc = "idle"
    /\ st = create_initial_state("")
    /\ passed = create_initial_state("")
    /\ fault = "none"
    /\ failedStage = NONE
    /\ reentries = 0
    /\ retryPending = FALSE
    /\ rcAtRetry = 0
    /\ assessed = FALSE
    /\ cyc = NoCycle
    /\ par = NoPair
    /\ db = NoDb

\* one step of the graph executor
StageStep ==
    \/ initialize_node
    \/ detect_intent_node
    \/ evaluate_baseline_node
    \/ retrieve_knowledge_node
    \/ validate_content_node
    \/ generate_explanation_node
    \/ generate_mnemonic_node
    \/ create_comprehension_check_node
    \/ wait_for_response_node
    \/ assess_understanding_node
    \/ adaptive_followup_node
    \/ update_progress_node
    \/ record_gap_node
    \/ progress_entry_node
    \/ review_entry_node
    \/ assessment_entry_node
    \/ finalize_node

Next ==
    \/ run
    \/ continue_with_response
    \/ StageStep

Spec == Init /\ [][Next]_vars

\* workflow.invoke runs stage after stage until END or an exception
FairSpec == Spec /\ WF_vars(StageStep)

----------------------------------------------------------------------------
(* The reasoning-action cycle of one agent invocation:                     *)
(*   agent -> should_continue -> tools -> agent -> ... -> extract_result   *)

Agents == {"socratic_teacher", "knowledge_assessor", "content_validator",
           "mnemonic_generator", "progress_tracker"}

\* the tools list each create_*_agent hands to ToolExecutor
Tools(agent) ==
    CASE agent = "socratic_teacher" ->
           {"evaluate_knowledge_baseline", "search_related_concepts",
            "generate_socratic_explanation", "generate_comprehension_questions",
            "generate_adaptive_followup"}
      [] agent = "knowledge_assessor" ->
           {"extract_key_points", "identify_misunderstandings",
            "assess_understanding_level", "decide_next_action"}
      [] agent = "content_validator" ->
           {"search_verification_sources", "extract_web_content",
            "validate_against_sources", "save_verified_content",
            "should_verify_content", "generate_verified_explanation",
            "get_authority_sources"}
      [] agent = "mnemonic_generator" ->
           {"analyze_concept_features", "select_mnemonic_strategy",
            "generate_acronym", "generate_analogy", "generate_comparison",
            "generate_visual", "generate_number_pattern", "save_mnemonic_device"}
      [] agent = "progress_tracker" ->
           {"query_mastery_records", "query_knowledge_gaps",
            "calculate_efficiency_metrics", "recommend_review_topics",
            "recommend_next_topics", "update_mastery_state",
            "record_knowledge_gap", "save_question_record",
            "save_explanation_record", "save_comprehension_check",
            "generate_progress_summary", "resolve_knowledge_gap"}

\* the task_type an invocation is made for: the tasks of the requests in
\* RequestNames, and for the teacher a task that expects a dict and a task
\* that expects a str
TaskTypes(agent) ==
    CASE agent = "socratic_teacher"   -> {"evaluate_baseline", "generate_explanation"}
      [] agent = "knowledge_assessor" -> {"assess_understanding", "recommend_next_action"}
      [] agent = "content_validator"  -> {"validate_content"}
      [] agent = "mnemonic_generator" -> {"generate_mnemonic"}
      [] agent = "progress_tracker"   -> {"analyze_efficiency"}

\* the tool names the oracle is taken to request from each agent: one tool
\* whose arguments tool_node fills in when absent, and one name outside the
\* agent's tools list; from the teacher also a tool that returns text, from
\* the progress tracker also a tool that reads the records of a tenant, from
\* the assessor also the two tools that return lists, from the validator
\* also the tool that gives the verdict
RequestNames(agent) ==
    CASE agent = "socratic_teacher"   -> {"search_related_concepts",
                                          "generate_socratic_explanation",
                                          "unlisted_tool"}
      [] agent = "knowledge_assessor" -> {"decide_next_action", "extract_key_points",
                                          "identify_misunderstandings",
                                          "unlisted_tool"}
      [] agent = "content_validator"  -> {"generate_verified_explanation",
                                          "validate_against_sources",
                                          "unlisted_tool"}
      [] agent = "mnemonic_generator" -> {"generate_analogy", "unlisted_tool"}
      [] agent = "progress_tracker"   -> {"calculate_efficiency_metrics",
                                          "query_mastery_records",
                                          "unlisted_tool"}

\* The value json.loads gives back for an observation, seen through its
\* Python type and the names an extractor looks for in it: the keys of a
\* dict, the words of a str; a list is seen through whether it has an entry.
\* NoValue stands for a tool that did not return.
NoValue == [type |-> NONE, has |-> {}]

\* the values a tool returns (json.dumps of them is the observation).  A
\* generated explanation is free text, which may hold the word "level";
\* decide_next_action returns the bare name of the action.
ResultShapes(name) ==
    CASE name = "search_related_concepts" ->
           { [type |-> "list", has |-> {}] }
      [] name = "generate_socratic_explanation" ->
           { [type |-> "str", has |-> {}], [type |-> "str", has |-> {"level"}] }
      [] name = "decide_next_action" ->
           { [type |-> "str", has |-> {"retry"}] }
      [] name = "extract_key_points" ->
           { [type |-> "list", has |-> {}], [type |-> "list", has |-> {"entry"}] }
      [] name = "identify_misunderstandings" ->
           { [type |-> "list", has |-> {}], [type |-> "list", has |-> {"entry"}] }
      [] name = "generate_verified_explanation" ->
           { [type |-> "str", has |-> {}] }
      [] name = "validate_against_sources" ->
           { [type |-> "dict", has |-> {"is_verified", "confidence_score"}] }
      [] name = "generate_analogy" ->
           { [type |-> "dict", has |-> {"abstract_concept", "concrete_analogy"}] }
      [] name = "calculate_efficiency_metrics" ->
           { [type |-> "dict", has |-> {"average_mastery_time_days", "total_mastered"}] }
      [] name = "query_mastery_records" ->
           { [type |-> "list", has |-> {}] }

\* the tenant the invoking session belongs to (state["tenant_id"]), and
\* another tenant of the system
SessionTenant == "tenant of the session"
ForeignTenant == "another tenant"

\* the requested tools that have a tenant_id parameter
IdentifierTools == {"search_related_concepts", "query_mastery_records"}

\* the tenant_id the oracle writes into the arguments of a request: none
\* when it leaves the optional arguments out; otherwise a value of its own
\* making, which is not the identifier the caller holds
OracleTenants(name, supplied) ==
    IF name \in IdentifierTools /\ supplied
      THEN {ForeignTenant} ELSE {NONE}

\* the tools taken to return whenever they are executed
Dependable == {"generate_socratic_explanation", "query_mastery_records",
               "extract_key_points", "identify_misunderstandings",
               "validate_against_sources"}

\* the tools whose requests are taken with the optional arguments written:
\* tool_node sets llm whatever the request holds, and the arguments it fills
\* for identify_misunderstandings, validate_against_sources and
\* decide_next_action have no bearing on the shape of the result
AlwaysSupplied == {"generate_socratic_explanation", "extract_key_points",
                   "identify_misunderstandings", "validate_against_sources",
                   "decide_next_action"}

\* an action request: supplied = the oracle wrote the optional arguments
\* itself (of no effect on generate_socratic_explanation, whose llm argument
\* tool_node always sets); tenant_id = the tenant it wrote; fails = the tool
\* raises when it is executed; returns = the value it returns otherwise
ToolCalls(agent) ==
    UNION { UNION { { [name |-> n, supplied |-> sup, tenant_id |-> t,
                       fails |-> o.fails, returns |-> o.returns] :
                        t \in OracleTenants(n, sup),
                        o \in { [fails |-> FALSE, returns |-> v] : v \in ResultShapes(n) }
                              \cup (IF n \in Dependable THEN {}
                                    ELSE { [fails |-> TRUE, returns |-> NoValue] }) } :
                      sup \in IF n \in AlwaysSupplied THEN {TRUE} ELSE BOOLEAN } :
              n \in RequestNames(agent) \cap Tools(agent) }
    \cup { [name |-> n, supplied |-> TRUE, tenant_id |-> NONE,
            fails |-> TRUE, returns |-> NoValue] :
             n \in RequestNames(agent) \ Tools(agent) }

\* sequences of 1..n action requests in one oracle reply
RequestSeqs(agent, n) ==
    UNION { [1..k -> ToolCalls(agent)] : k \in 1..n }

\* variant of tool_executor_invoke that answers an unknown name with an
\* empty result
tool_executor_invoke_lenient(agent, call) ==
    IF call.name \notin Tools(agent)
      THEN [ invoked |-> FALSE, raised |-> NONE ]
    ELSE IF call.fails THEN [ invoked |-> TRUE, raised |-> "tool_exception" ]
    ELSE [ invoked |-> TRUE, raised |-> NONE ]

\* ToolExecutor.invoke: a name that is not registered raises ValueError
\* ("Unknown tool") before any tool is touched; a registered tool is invoked
\* and returns or raises
tool_executor_invoke(agent, call) ==
    IF call.name \notin Tools(agent)
      THEN [ invoked |-> FALSE, raised |-> "unknown_tool" ]
    ELSE IF call.fails THEN [ invoked |-> TRUE, raised |-> "tool_exception" ]
    ELSE [ invoked |-> TRUE, raised |-> NONE ]

\* the argument filling of tool_node, done before the try block.  In the
\* content validator, a generate_verified_explanation request without
\* confidence_score reads state.get("validation_result", {}) and calls .get
\* on it; the key is present with the value None from
\* invoke_content_validator on, so that call raises AttributeError.
FillRaises(c, call) ==
    /\ c.agent = "content_validator"
    /\ call.name = "generate_verified_explanation"
    /\ ~call.supplied
    /\ c.validation_result = NONE

\* the tenant_id a tool is invoked with, after the argument filling of
\* tool_node: the teacher sets it from the state, the other agents set it
\* only when the request has none
tool_args_tenant_id(agent, call) ==
    IF agent = "socratic_teacher" THEN SessionTenant
    ELSE IF call.tenant_id = NONE THEN SessionTenant
    ELSE call.tenant_id

\* variant of ToolMessages that lists the observations last request first
ToolMessagesReversed(agent, tool_calls, first_id) ==
    [ i \in 1..Len(tool_calls) |->
        [ kind |-> "tool",
          tool_call_id |-> first_id + (Len(tool_calls) + 1 - i),
          content |-> "json",
          shape |-> NoValue ] ]

\* the ToolMessage tool_node appends for one request
Observation(agent, call, id) ==
    [ kind |-> "tool",
      tool_call_id |-> id,
      content |-> LET r == tool_executor_invoke(agent, call)
                  IN  IF r.raised = NONE THEN "json"
                      ELSE IF r.raised = "unknown_tool" THEN "error: Unknown tool"
                      ELSE "error: tool exception",
      shape |-> IF tool_executor_invoke(agent, call).raised = NONE
                  THEN call.returns ELSE NoValue ]

\* tool_messages: one ToolMessage per request, in the order of tool_calls
ToolMessages(agent, tool_calls, first_id) ==
    [ i \in 1..Len(tool_calls) |-> Observation(agent, tool_calls[i], first_id + i) ]

AIMessage(calls) == [ kind |-> "ai", tool_calls |-> calls ]
Prompt == [ kind |-> "human" ]

\* invoke_<agent>: the initial state and agent.invoke
invoke_agent ==
    /\ cyc.agent = NONE
    /\ \E a \in Agents : \E t \in TaskTypes(a) :
         cyc' = [ NoCycle EXCEPT !.agent = a, !.task_type = t, !.at = "agent" ]
    /\ UNCHANGED <<wfvars, par, db>>

\* the last message requests tools
should_continue(messages) ==
    IF /\ messages[Len(messages)].kind = "ai"
       /\ Len(messages[Len(messages)].tool_calls) > 0
      THEN "tools" ELSE "end"

\* agent_node followed by the conditional edge: the oracle's reply is
\* appended to the transcript; a failing oracle call is not caught
agent_node ==
    /\ cyc.at = "agent"
    /\ LET messages == IF cyc.messages = << >> THEN <<Prompt, Prompt>>
                       ELSE cyc.messages
           Reply(calls) ==
               LET new_messages == Append(messages, AIMessage(calls))
               IN  cyc' = [ cyc EXCEPT
                              !.messages = new_messages,
                              !.requests = @ + Len(calls),
                              !.at = IF should_continue(new_messages) = "tools"
                                       THEN "tools" ELSE "extract_result" ]
       IN  \/ Reply(<< >>)
           \/ \E calls \in RequestSeqs(cyc.agent, MaxRequests - cyc.requests) :
                Reply(calls)
           \/ cyc' = [ cyc EXCEPT !.at = "raised", !.raisedBy = "agent_node" ]
    /\ UNCHANGED <<wfvars, par, db>>

\* tool_node followed by the edge back to agent
tool_node ==
    /\ cyc.at = "tools"
    /\ LET messages   == cyc.messages
           tool_calls == messages[Len(messages)].tool_calls
           first_id   == cyc.requests - Len(tool_calls)
           raising    == { i \in 1..Len(tool_calls) : FillRaises(cyc, tool_calls[i]) }
           \* the requests reached before the loop is left
           executed   == { i \in 1..Len(tool_calls) : \A r \in raising : i < r }
           invoked    == { first_id + i : i \in
                             { k \in executed :
                                 tool_executor_invoke(cyc.agent, tool_calls[k]).invoked } }
           tenants    == { tool_args_tenant_id(cyc.agent, tool_calls[k]) : k \in
                             { k \in executed :
                                 /\ tool_executor_invoke(cyc.agent, tool_calls[k]).invoked
                                 /\ tool_calls[k].name \in IdentifierTools } }
       IN  IF raising # {}
             THEN cyc' = [ cyc EXCEPT !.invoked = @ \cup invoked,
                                      !.tenants = @ \cup tenants,
                                      !.at = "raised", !.raisedBy = "tool_node" ]
             ELSE cyc' = [ cyc EXCEPT
                             !.messages = messages \o
                                 ToolMessages(cyc.agent, tool_calls, first_id),
                             !.invoked = @ \cup invoked,
                             !.tenants = @ \cup tenants,
                             !.at = "agent" ]
    /\ UNCHANGED <<wfvars, par, db>>

\* what an extraction hands back: the observation its output field is taken
\* from (0: the field keeps its default), or an exception
Extracted(id) == [raises |-> FALSE, output |-> id]
ExtractRaises == [raises |-> TRUE, output |-> 0]

\* extract_result of the teacher: result is the last observation that
\* parses, {} when there is none.  `key in result` is a key test on a dict, a
\* substring test on a str, an element test on a list (of dicts here) and a
\* TypeError on anything else; result[key] and result.get need a dict.
teacher_extract_result(task_type, tool_results) ==
    LET n      == Len(tool_results)
        result == IF n = 0 THEN [type |-> "dict", has |-> {}]
                  ELSE tool_results[n].shape
        id     == IF n = 0 THEN 0 ELSE tool_results[n].tool_call_id
        KeyTest(key) ==
            IF result.type \notin {"dict", "str", "list"} THEN ExtractRaises
            ELSE IF result.type = "list" \/ key \notin result.has THEN Extracted(0)
            ELSE IF result.type = "dict" THEN Extracted(id)
            ELSE ExtractRaises
        TypeTest(type) ==
            IF result.type = type THEN Extracted(id) ELSE Extracted(0)
    IN  CASE task_type = "evaluate_baseline"    -> KeyTest("level")
          [] task_type = "retrieve_knowledge"   -> TypeTest("list")
          [] task_type = "generate_explanation" -> TypeTest("str")
          [] task_type = "generate_questions"   -> TypeTest("list")
          [] task_type = "adaptive_followup"    -> KeyTest("strategy")

\* the shape the other extractors take the output field of the task from
Matches(agent, task_type, v) ==
    CASE agent = "knowledge_assessor" /\ task_type = "recommend_next_action" ->
           \/ /\ v.type = "dict"
              /\ "assessment_result" \notin v.has
              /\ "next_action" \in v.has
           \/ /\ v.type = "str"
              /\ v.has \cap {"continue", "adaptive_followup", "retry", "record_gap"} # {}
      [] agent = "knowledge_assessor" /\ task_type = "assess_understanding" ->
           /\ v.type = "dict"
           /\ "assessment_result" \in v.has
      [] agent = "content_validator" /\ task_type = "validate_content" ->
           /\ v.type = "dict"
           /\ "needs_verification" \notin v.has
           /\ v.has \cap {"is_accurate", "confidence"} # {}
      [] agent = "mnemonic_generator" /\ task_type = "generate_mnemonic" ->
           /\ v.type = "dict"
           /\ v.has \cap {"complexity", "num_key_points"} = {}
           /\ \/ "acronym" \in v.has
              \/ {"abstract_concept", "concrete_analogy"} \subseteq v.has
              \/ {"table_title", "dimensions"} \subseteq v.has
              \/ {"visual_type", "mermonic_diagram"} \subseteq v.has
              \/ {"pattern", "memory_phrase"} \subseteq v.has
      [] agent = "progress_tracker" /\ task_type = "analyze_efficiency" ->
           /\ v.type = "dict"
           /\ v.has \cap {"mastery_rate", "avg_attempts"} # {}

\* extract_result of the other agents: every parsed observation is looked
\* at in turn and the last one of the matching shape is kept
scan_extract_result(agent, task_type, tool_results) ==
    LET hits == { i \in 1..Len(tool_results) :
                    Matches(agent, task_type, tool_results[i].shape) }
    IN  IF hits = {} THEN Extracted(0)
        ELSE Extracted(tool_results[CHOOSE i \in hits : \A j \in hits : j <= i].tool_call_id)

\* a list slot of the assessor's extraction: the observation it was taken
\* from (0: the initial empty list) and whether the list has an entry
EmptySlot == [id |-> 0, filled |-> FALSE]

\* the loop of the assessor's extract_result over the first n parsed
\* observations, for the lists: a list goes to key_points_understood while
\* that is empty (`not key_points_understood`), otherwise to
\* misunderstandings while that is empty
RECURSIVE assessor_list_slots(_, _)
assessor_list_slots(tool_results, n) ==
    IF n = 0
      THEN [ key_points_understood |-> EmptySlot, misunderstandings |-> EmptySlot ]
    ELSE LET prev == assessor_list_slots(tool_results, n - 1)
             r    == tool_results[n]
             slot == [id |-> r.tool_call_id, filled |-> r.shape.has # {}]
         IN  IF r.shape.type # "list" THEN prev
             ELSE IF ~prev.key_points_understood.filled
               THEN [prev EXCEPT !.key_points_understood = slot]
             ELSE IF ~prev.misunderstandings.filled
               THEN [prev EXCEPT !.misunderstandings = slot]
             ELSE prev

IsParsed(m) == m.kind = "tool" /\ m.content = "json"

\* extract_result: the observations that parse as JSON are collected (the
\* text of a failed tool does not parse and is skipped) and the output of
\* the task is looked for among them; an exception here is not caught
extract_result ==
    /\ cyc.at = "extract_result"
    /\ LET tool_results == SelectSeq(cyc.messages, IsParsed)
           e == IF cyc.agent = "socratic_teacher"
                  THEN teacher_extract_result(cyc.task_type, tool_results)
                  ELSE scan_extract_result(cyc.agent, cyc.task_type, tool_results)
           lists == IF cyc.agent = "knowledge_assessor"
                        /\ cyc.task_type = "assess_understanding"
                      THEN assessor_list_slots(tool_results, Len(tool_results))
                      ELSE [ key_points_understood |-> EmptySlot,
                             misunderstandings |-> EmptySlot ]
       IN  IF e.raises
             THEN cyc' = [ cyc EXCEPT !.at = "raised", !.raisedBy = "extract_result" ]
             ELSE cyc' = [ cyc EXCEPT
                             !.result = [ m \in 1..Len(tool_results) |->
                                            tool_results[m].tool_call_id ],
                             !.output = e.output,
                             !.key_points_understood =
                                 lists.key_points_understood.id,
                             !.misunderstandings = lists.misunderstandings.id,
                             !.at = "END" ]
    /\ UNCHANGED <<wfvars, par, db>>

CycleNext ==
    \/ invoke_agent
    \/ agent_node
    \/ tool_node
    \/ extract_result

CycleSpec == Init /\ [][CycleNext]_vars

\* action requests and observations in the transcript
IsAI(m) == m.kind = "ai"
IsTool(m) == m.kind = "tool"
RECURSIVE Requested(_)
Requested(ms) ==
    IF ms = << >> THEN 0
    ELSE (IF IsAI(Head(ms)) THEN Len(Head(ms).tool_calls) ELSE 0) + Requested(Tail(ms))
Observed(ms) == Len(SelectSeq(ms, IsTool))

----------------------------------------------------------------------------
(* Two sessions through one workflow instance.  The instance holds its     *)
(* agents and the compiled graph, which are assigned in __init__ and are   *)
(* written by no stage; what two sessions can have in common are the list  *)
(* objects their states refer to.  par.heap gives each list object its     *)
(* content, a state in par.sess refers to its mnemonic_devices by the      *)
(* index of the object, and par.sess[i].alone is the state session i has   *)
(* when its stages run with no other session.  A session is followed from  *)
(* its call to the end of generate_mnemonic, the stage that writes the     *)
(* list.                                                                   *)

\* the list object a state refers to, replaced by its content
SessionView(i) ==
    [ par.sess[i].st EXCEPT !.mnemonic_devices = par.heap[@] ]

\* a call for session i with state s, whose mnemonic_devices is the list
\* object ref of heap
StartSession(i, s, heap, ref) ==
    par' = [ heap |-> heap,
             sess |-> [ par.sess EXCEPT ![i] =
                          [ pc    |-> "generate_mnemonic",
                            st    |-> [s EXCEPT !.mnemonic_devices = ref],
                            alone |-> [s EXCEPT !.mnemonic_devices = heap[ref]],
                            given |-> ref ] ] ]

\* run() for one of the sessions: create_initial_state makes the state, with
\* a list of its own (default_factory=list)
pair_run ==
    /\ \E i \in Sessions, q \in Questions :
         /\ par.sess[i].pc = "idle"
         /\ StartSession(i, create_initial_state(q),
                         Append(par.heap, << >>), Len(par.heap) + 1)
    /\ UNCHANGED solo

\* continue_with_response() for one of the sessions: the state is the
\* caller's, and its list is either an object of its own or the object the
\* state of the other session was given (as after a shallow copy)
pair_continue_with_response ==
    /\ \E i \in Sessions, skip \in BOOLEAN, result \in {NONE, "fully_understood"} :
         LET s == [ create_initial_state("what is a derivative?") EXCEPT
                      !.skip_mnemonic = skip,
                      !.assessment_result = result,
                      !.learner_response = "a long enough answer" ]
         IN  /\ par.sess[i].pc = "idle"
             /\ \/ StartSession(i, s, Append(par.heap, << >>), Len(par.heap) + 1)
                \/ \E j \in Sessions \ {i} :
                     /\ par.sess[j].pc # "idle"
                     /\ StartSession(i, s, par.heap, par.sess[j].given)
    /\ UNCHANGED solo

\* variant of list_copy that hands back the same object
list_alias(heap, ref) == [ heap |-> heap, ref |-> ref ]

\* list(state.mnemonic_devices): a new list object with the same content
list_copy(heap, ref) ==
    [ heap |-> Append(heap, heap[ref]), ref |-> Len(heap) + 1 ]

\* _generate_mnemonic_node for one of the sessions; the append is made to
\* the object `devices` refers to
pair_generate_mnemonic ==
    /\ \E i \in Sessions :
         LET s == par.sess[i]
             v == SessionView(i)
         IN  /\ s.pc = "generate_mnemonic"
             /\ IF MnemonicNodeSkips(v)
                  THEN par' = [ par EXCEPT
                                  !.sess[i].pc = "create_comprehension_check",
                                  !.sess[i].st.workflow_stage = "mnemonic_skipped",
                                  !.sess[i].alone.workflow_stage = "mnemonic_skipped" ]
                  ELSE \E generated \in MnemonicOutcomes(v) :
                         LET devices == list_copy(par.heap, s.st.mnemonic_devices)
                             heap == IF generated # NONE
                                       THEN [ devices.heap EXCEPT
                                                ![devices.ref] = Append(@, generated) ]
                                       ELSE devices.heap
                         IN  par' = [ heap |-> heap,
                                      sess |-> [ par.sess EXCEPT ![i] =
                                        [ s EXCEPT
                                            !.pc = "create_comprehension_check",
                                            !.st.mnemonic_devices = devices.ref,
                                            !.st.workflow_stage = "mnemonic_generated",
                                            !.alone.mnemonic_devices =
                                                mnemonic_devices_after(s.alone, generated),
                                            !.alone.workflow_stage = "mnemonic_generated" ] ] ]
    /\ UNCHANGED solo

PairNext ==
    \/ pair_run
    \/ pair_continue_with_response
    \/ pair_generate_mnemonic

PairSpec == Init /\ [][PairNext]_vars

----------------------------------------------------------------------------
(* The knowledge-gap table (backend/agents/tools/progress_tracker_tools.py). *)
(* A row is identified by its position in db.gaps (gap_id is a fresh uuid4); *)
(* resolved stands for resolution_date being set.                            *)

Learners     == {"learner 1", "learner 2"}
Topics       == {"topic 1"}
Tenants      == {SessionTenant, ForeignTenant}
Descriptions == {"first description", "second description"}

\* the unresolved rows of a (learner, topic, tenant)
UnresolvedGaps(gaps, learner_id, tenant_id, topic_id) ==
    { i \in 1..Len(gaps) : /\ gaps[i].learner_id = learner_id
                           /\ gaps[i].topic_id = topic_id
                           /\ gaps[i].tenant_id = tenant_id
                           /\ ~gaps[i].resolved }

\* variant of record_knowledge_gap that adds a row whatever the table holds
record_knowledge_gap_always_new(gaps, learner_id, tenant_id, topic_id, gap_description) ==
    Append(gaps, [ learner_id |-> learner_id, topic_id |-> topic_id,
                   tenant_id |-> tenant_id, gap_description |-> gap_description,
                   resolved |-> FALSE ])

\* record_knowledge_gap: the table after the call.  scalar_one_or_none
\* raises when more than one row matches, and the table stays as it is.
record_knowledge_gap(gaps, learner_id, tenant_id, topic_id, gap_description) ==
    LET existing == UnresolvedGaps(gaps, learner_id, tenant_id, topic_id)
    IN  IF Cardinality(existing) > 1 THEN gaps
        ELSE IF existing # {}
          THEN [ gaps EXCEPT ![CHOOSE i \in existing : TRUE].gap_description =
                                gap_description ]
        ELSE Append(gaps, [ learner_id |-> learner_id, topic_id |-> topic_id,
                            tenant_id |-> tenant_id,
                            gap_description |-> gap_description,
                            resolved |-> FALSE ])

\* resolve_knowledge_gap: the table after the call; an unknown gap_id
\* changes nothing
resolve_knowledge_gap(gaps, gap_id) ==
    IF gap_id \notin 1..Len(gaps) THEN gaps
    ELSE [ gaps EXCEPT ![gap_id].resolved = TRUE ]

\* a call of record_knowledge_gap
record_gap_call ==
    /\ \E l \in Learners, t \in Tenants, c \in Topics, d \in Descriptions :
         LET gaps == record_knowledge_gap(db.gaps, l, t, c, d)
         IN  /\ Len(gaps) <= MaxGaps
             /\ db' = [ db EXCEPT !.gaps = gaps ]
    /\ UNCHANGED <<wfvars, cyc, par>>

\* a call of resolve_knowledge_gap
resolve_gap_call ==
    /\ \E gap_id \in 1..(MaxGaps + 1) :
         db' = [ db EXCEPT !.gaps = resolve_knowledge_gap(db.gaps, gap_id) ]
    /\ UNCHANGED <<wfvars, cyc, par>>

GapNext ==
    \/ record_gap_call
    \/ resolve_gap_call

GapSpec == Init /\ [][GapNext]_vars

----------------------------------------------------------------------------
(* ProgressTracker.save_session_data (progress_tracker_agent.py) and the     *)
(* three tables it writes.  db.sess is the TeachingState it is called on,    *)
(* which the call changes in place; between calls the session goes on: an    *)
(* explanation is generated or generated anew, the learner answers.          *)

SessionIds == {NONE, "session 1"}

\* variant of save_session_data that saves without looking at the record ids
\* of the state
save_session_data_unguarded(d) ==
    LET s0 == d.sess
    IN  IF s0.session_id = NONE
          THEN [ d EXCEPT !.sess.error_message = "session id not set" ]
        ELSE
          LET q  == Truthy(s0.question_text)
              questions == IF q THEN Append(d.questions,
                                            [ session_id |-> s0.session_id,
                                              question_text |-> s0.question_text ])
                           ELSE d.questions
              s1 == IF q THEN [ s0 EXCEPT !.question_id = Len(questions) ] ELSE s0
              e  == Truthy(s1.explanation) /\ s1.question_id # 0
              explanations == IF e THEN Append(d.explanations,
                                               [ question_id |-> s1.question_id,
                                                 explanation_text |-> s1.explanation ])
                              ELSE d.explanations
              s2 == IF e THEN [ s1 EXCEPT !.explanation_id = Len(explanations) ] ELSE s1
              c  == Truthy(s2.learner_response) /\ s2.explanation_id # 0
              checks == IF c THEN Append(d.checks,
                                         [ explanation_id |-> s2.explanation_id,
                                           learner_response |-> s2.learner_response ])
                        ELSE d.checks
              s3 == IF c THEN [ s2 EXCEPT !.check_id = Len(checks) ] ELSE s2
          IN  [ d EXCEPT !.sess = [ s3 EXCEPT !.workflow_stage = "session_data_saved" ],
                         !.questions = questions,
                         !.explanations = explanations,
                         !.checks = checks ]

\* ProgressTracker.save_session_data: the state and the tables after the call
save_session_data(d) ==
    LET s0 == d.sess
    IN  IF s0.session_id = NONE
          THEN [ d EXCEPT !.sess.error_message = "session id not set" ]
        ELSE
          LET q  == Truthy(s0.question_text) /\ s0.question_id = 0
              questions == IF q THEN Append(d.questions,
                                            [ session_id |-> s0.session_id,
                                              question_text |-> s0.question_text ])
                           ELSE d.questions
              s1 == IF q THEN [ s0 EXCEPT !.question_id = Len(questions) ] ELSE s0
              e  == /\ Truthy(s1.explanation)
                    /\ s1.question_id # 0
                    /\ s1.explanation_id = 0
              explanations == IF e THEN Append(d.explanations,
                                               [ question_id |-> s1.question_id,
                                                 explanation_text |-> s1.explanation ])
                              ELSE d.explanations
              s2 == IF e THEN [ s1 EXCEPT !.explanation_id = Len(explanations) ] ELSE s1
              c  == /\ Truthy(s2.learner_response)
                    /\ s2.explanation_id # 0
                    /\ s2.check_id = 0
              checks == IF c THEN Append(d.checks,
                                         [ explanation_id |-> s2.explanation_id,
                                           learner_response |-> s2.learner_response ])
                        ELSE d.checks
              s3 == IF c THEN [ s2 EXCEPT !.check_id = Len(checks) ] ELSE s2
          IN  [ d EXCEPT !.sess = [ s3 EXCEPT !.workflow_stage = "session_data_saved" ],
                         !.questions = questions,
                         !.explanations = explanations,
                         !.checks = checks ]

\* create_initial_state for the session the tracker will be called on: the
\* record ids are unset
open_session ==
    /\ ~db.sess.opened
    /\ \E id \in SessionIds, q \in Questions :
         db' = [ db EXCEPT !.sess = [ NoSession EXCEPT !.opened = TRUE,
                                                       !.session_id = id,
                                                       !.question_text = q ] ]
    /\ UNCHANGED <<wfvars, cyc, par>>

\* the session gets an explanation, or another one (_generate_explanation_node)
session_explains ==
    /\ db.sess.opened
    /\ \E e \in {TextConcept, TextNumeric} \ {db.sess.explanation} :
         db' = [ db EXCEPT !.sess.explanation = e ]
    /\ UNCHANGED <<wfvars, cyc, par>>

\* the learner's answer is put into the state (continue_with_response)
session_answers ==
    /\ db.sess.opened
    /\ db.sess.learner_response = NONE
    /\ \E r \in LearnerResponses :
         db' = [ db EXCEPT !.sess.learner_response = r ]
    /\ UNCHANGED <<wfvars, cyc, par>>

\* a call of save_session_data on the state of the session
save_session_data_call ==
    /\ db.sess.opened
    /\ db.saves < MaxSaves
    /\ db' = [ save_session_data(db) EXCEPT !.saves = @ + 1 ]
    /\ UNCHANGED <<wfvars, cyc, par>>

SaveNext ==
    \/ open_session
    \/ session_explains
    \/ session_answers
    \/ save_session_data_call

SaveSpec == Init /\ [][SaveNext]_vars

----------------------------------------------------------------------------
(* Properties of the workflow *)

Finished == pc \in {"END", "raised"}

\* C1: in every session the number of times generate_explanation is
\* re-entered after a not_understood assessment is at most max_retries.
C1_RetryBound == reentries <= st.max_retries

\* C2: in a learn session whose assessments are all not_understood, in which
\* no call raises and the routing never leaves the retry path for
\* update_progress or adaptive_followup, record_gap is eventually entered.
C2_GapEventuallyRecorded ==
    ( /\ []( /\ assessed => st.assessment_result = "not_understood"
             /\ pc \notin {"raised", "update_progress", "adaptive_followup"} )
      /\ <>(pc = "assess_understanding" /\ st.intent = "learn") )
    => <>(pc = "record_gap")

\* C3: each time the routing after assessment takes the retry branch,
\* retry_count has grown by one when the next assessment is routed.
C3_RetryIncrements ==
    [][ ( /\ pc = "assess_understanding"
          /\ retryPending
          /\ pc' \in {"update_progress", "adaptive_followup",
                      "generate_explanation", "record_gap"} )
        => st'.retry_count = rcAtRetry + 1 ]_vars

\* C4: for every entry intent, a session in which no agent invocation fails
\* reaches the end of the finalize stage.
C4_ReachesFinalize ==
    [](pc # "raised") => ((api # "idle") ~> (pc = "END"))

\* the stage the assessment result and the retry counters call for
StageForAssessment(s) ==
    IF s.assessment_result = "fully_understood" THEN "update_progress"
    ELSE IF s.assessment_result = "partially_understood" THEN "adaptive_followup"
    ELSE IF s.retry_count < s.max_retries THEN "generate_explanation"
    ELSE "record_gap"

\* C5: the stage that follows assess_understanding is the one given by the
\* assessment result and the retry counters.
C5_RouteByAssessment ==
    [][ ( /\ pc = "assess_understanding"
          /\ pc' \notin {"assess_understanding", "raised"}
          /\ st'.assessment_result \in AssessmentResults )
        => pc' = StageForAssessment(st') ]_vars

\* C6: a session started with run() stops at the wait_for_response boundary:
\* assess_understanding does not run in it, as no answer has been supplied.
C6_RunSuspendsAtBoundary ==
    ~(api = "run" /\ pc = "assess_understanding")

\* C7: continue_with_response runs no stage that precedes the boundary before
\* the assessment, and assesses the explanation and questions of the state
\* it was given.
C7_ContinuesFromBoundary ==
    (api = "continue" /\ ~assessed) =>
        /\ pc \notin PreBoundaryStages
        /\ pc = "assess_understanding" =>
              /\ st.explanation = passed.explanation
              /\ st.comprehension_questions = passed.comprehension_questions

\* C8: a failing agent invocation does not abort the session.
C8_AgentFailureCaught ==
    ~(pc = "raised" /\ fault = "agent")

\* C9: after a stage's agent invocation failed, the caller receives a
\* Session State with error_message populated.
C9_ErrorMarkerReturned ==
    (failedStage # NONE /\ Finished) => (pc = "END" /\ st.error_message # NONE)

\* C10: in each of the five agents the tool step appends one observation per
\* action request of the reply it executes and never propagates an exception.
C10_ToolStepObservesAll ==
    /\ cyc.raisedBy # "tool_node"
    /\ cyc.at \in {"agent", "extract_result", "END"}
         => Observed(cyc.messages) = Requested(cyc.messages)

LastMessage(c) == c.messages[Len(c.messages)]

\* C11: after every tool step the oracle is consulted again; result
\* extraction is entered only from an oracle reply without action requests,
\* and a reply goes to extraction exactly when it has none; the cycle ends
\* only after result extraction.
C11_CycleEndsOnPlainReply ==
    [][ /\ cyc.at = "tools" => cyc'.at = "agent"
        /\ (cyc.at # "extract_result" /\ cyc'.at = "extract_result")
             => /\ cyc.at = "agent"
                /\ LastMessage(cyc').kind = "ai"
                /\ LastMessage(cyc').tool_calls = << >>
        /\ (cyc.at = "agent" /\ cyc'.at \in {"tools", "extract_result"})
             => (cyc'.at = "extract_result"
                   <=> LastMessage(cyc').tool_calls = << >>)
        /\ (cyc.at # "END" /\ cyc'.at = "END") => cyc.at = "extract_result"
      ]_vars

C13_MnemonicOnlyWhenCalledFor ==
    pc = "generate_mnemonic" =>
        /\ ~st.skip_mnemonic
        /\ \/ st.assessment_result = "not_understood"
           \/ TextLen(st.explanation) > MnemonicLengthThreshold

\* C13 witness: the stage is entered on the length of the explanation alone
C13_Witness ==
    /\ pc = "generate_mnemonic"
    /\ st.assessment_result # "not_understood"
    /\ TextLen(st.explanation) = MnemonicLengthThreshold + 1

\* the explanation text holds a regulatory/numeric keyword or a digit
Flagged(t) == HasKeyword(t) \/ HasDigit(t)

\* C14: validate_content is entered only if validation is not suppressed and
\* the explanation holds a regulatory/numeric keyword or a digit.
C14_ValidateOnlyWhenCalledFor ==
    pc = "validate_content" => (~st.skip_validation /\ Flagged(st.explanation))

\* C14 witness: validate_content is entered
C14_Witness ==
    pc = "validate_content" /\ ~st.skip_validation /\ HasDigit(st.explanation)

C16_WorkflowConstructed ==
    /\ build_workflow = "compiled"
    /\ EdgeStages \subseteq RegisteredStages \cup {"END"}
    /\ pc \in RegisteredStages \cup {"idle", "END", "raised"}

\* stages at which intent detection has not yet completed in this call
BeforeIntent == {"idle", "initialize", "detect_intent"}

\* C17: once intent detection has run, the session's intent is one of learn,
\* practice, progress, review; an oracle reply outside that set, an oracle
\* failure and an empty question all give learn.
C17_IntentDetected ==
    /\ (pc \notin BeforeIntent \cup {"raised"}) => st.intent \in DetectableIntents
    /\ \A q \in Questions, reply \in IntentReplies :
         ( \/ ~Truthy(q)
           \/ reply = "RAISES"
           \/ StripLower(reply) \notin DetectableIntents )
         => detected_intent(q, reply) = "learn"

\* C17 witness: the empty question was classified as learn
C17_Witness ==
    /\ pc = "evaluate_baseline"
    /\ st.question_text = ""
    /\ st.intent = "learn"
    /\ st.workflow_stage = "intent_detected"

NonLearnIntents == {"practice", "progress", "review"}
EntryStages == {"assessment_entry", "progress_entry", "review_entry"}

RECURSIVE AllRequests(_)
AllRequests(ms) ==
    IF ms = << >> THEN << >>
    ELSE (IF IsAI(Head(ms)) THEN Head(ms).tool_calls ELSE << >>)
         \o AllRequests(Tail(ms))

\* C19: a request whose name is not registered with the executor is answered
\* by the unknown-tool error and no tool is invoked for it; tools are invoked
\* for registered names only.
C19_UnknownToolRejected ==
    LET reqs == AllRequests(cyc.messages)
    IN  /\ \A i \in 1..Len(cyc.messages) :
             LET m == cyc.messages[i]
             IN  (IsTool(m) /\ reqs[m.tool_call_id].name \notin Tools(cyc.agent))
                   => /\ m.content = "error: Unknown tool"
                      /\ m.tool_call_id \notin cyc.invoked
        /\ \A id \in cyc.invoked : reqs[id].name \in Tools(cyc.agent)

\* C19 witness: an unregistered name was requested and answered
C19_Witness ==
    \E i \in 1..Len(cyc.messages) :
        /\ IsTool(cyc.messages[i])
        /\ AllRequests(cyc.messages)[cyc.messages[i].tool_call_id].name = "unlisted_tool"
        /\ cyc.messages[i].content = "error: Unknown tool"

IsPrefix(a, b) == Len(a) <= Len(b) /\ SubSeq(b, 1, Len(a)) = a

\* C20: in every step of an agent invocation the previous transcript is a
\* prefix of the new one, and the observations stand in the transcript in the
\* order in which their actions were requested, each after its request.
C20_TranscriptAppendOnly ==
    [][ /\ IsPrefix(cyc.messages, cyc'.messages)
        /\ LET obs == SelectSeq(cyc'.messages, IsTool)
           IN  \A j \in 1..Len(obs) : obs[j].tool_call_id = j
        /\ \A i \in 1..Len(cyc'.messages) :
             IsTool(cyc'.messages[i]) =>
                cyc'.messages[i].tool_call_id
                   <= Len(AllRequests(SubSeq(cyc'.messages, 1, i)))
      ]_vars

\* C20 witness: a transcript with two oracle replies and the observations of
\* a reply that requested two actions
C20_Witness ==
    /\ Len(SelectSeq(cyc.messages, IsAI)) >= 2
    /\ \E i \in 1..Len(cyc.messages) :
          IsAI(cyc.messages[i]) /\ Len(cyc.messages[i].tool_calls) = 2
    /\ Observed(cyc.messages) >= 2

ResultByCoverage(covered, nExpected) ==
    IF 10 * covered >= 8 * nExpected THEN "fully_understood"
    ELSE IF 10 * covered >= 5 * nExpected THEN "partially_understood"
    ELSE "not_understood"

\* C22: for a response of at least 10 characters without a negative keyword,
\* the assessment result is fully_understood when the ratio of understood to
\* expected key points is at least 0.8, partially_understood when it is at
\* least 0.5 and below 0.8, and not_understood otherwise; this for every
\* assessment the stage assess_understanding can obtain.
C22_CoverageThresholds ==
    pc = "assess_understanding" =>
        \A a \in AssessArgs :
            (a.respLen >= 10 /\ ~a.negative /\ a.nExpected > 0)
            => assess_understanding_level(a.nUnderstood, a.covered, a.nExpected,
                                          a.nMis, a.respLen, a.negative).assessment_result
               = ResultByCoverage(a.covered, a.nExpected)

\* C23: an assessment made for the same learner response and the same
\* expected key points always gives the same assessment result: in a state
\* about to be assessed, all the results the assessment can hand back agree.
C23_AssessmentDeterministic ==
    (pc = "assess_understanding" /\ Truthy(st.learner_response))
    => \A a, b \in AssessOutcomes : a.assessment_result = b.assessment_result

\* C24: the confidence level an assessment records follows from the
\* assessment result and retry_count: full understanding on the first try
\* is recorded with high confidence, and full understanding after repeated
\* retries with at most medium confidence.
C24_ConfidenceFromResultAndRetries ==
    ( /\ assessed
      /\ pc # "raised"
      /\ st.assessment_result = "fully_understood" )
    => /\ st.retry_count = 0 => st.confidence_level = "high"
       /\ st.retry_count >= 2 => st.confidence_level \in {"low", "medium"}

\* C25: when a session ends through record_gap, a knowledge gap has been
\* recorded in the session by the time it reaches finalize.
C25_GapRecordedBeforeFinalize ==
    (pc = "finalize" /\ st.workflow_stage = "gap_recorded")
    => st.knowledge_gaps # <<>>

\* the parsed observations of the transcript and those of the shape the
\* task expects
ParsedObservations == SelectSeq(cyc.messages, IsParsed)

\* C26: result extraction is non-fatal for every transcript: it never
\* raises, and when no observation has the shape the task expects the
\* output field of the task is left at its default.
C26_ExtractionNonFatal ==
    /\ cyc.raisedBy # "extract_result"
    /\ ( /\ cyc.at = "END"
         /\ cyc.agent # "socratic_teacher"
         /\ \A i \in 1..Len(ParsedObservations) :
               ~Matches(cyc.agent, cyc.task_type, ParsedObservations[i].shape) )
       => cyc.output = 0

C29_DevicesAppendOnly ==
    [][ (api # "idle" /\ pc' # "raised")
        => /\ IsPrefix(st.mnemonic_devices, st'.mnemonic_devices)
           /\ Len(st'.mnemonic_devices) <= Len(st.mnemonic_devices) + 1
           /\ st'.mnemonic_devices # st.mnemonic_devices
                => (pc = "generate_mnemonic" /\ ~MnemonicNodeSkips(st)) ]_vars

\* C29 witness: a second device has been appended after the first
C29_Witness ==
    /\ pc = "create_comprehension_check"
    /\ st.workflow_stage = "mnemonic_generated"
    /\ st.mnemonic_devices = << DeviceNames[1], DeviceNames[2] >>

\* the session state with every value of the fields _route_after_assessment
\* reads
RoutedStates ==
    { [ st EXCEPT !.next_action = n, !.assessment_result = a, !.retry_count = r ] :
        n \in StateNextActions \cup {NONE, "record_gap"},
        a \in AssessmentResults \cup {NONE},
        r \in {0, DefaultMaxRetries} }

\* C30: for every session state the state type admits, the key
\* _route_after_assessment returns is one of the keys of the routing map of
\* assess_understanding.
C30_RouteKeyDefined ==
    \A s \in RoutedStates :
        TeachingStateAdmits(s) => route_after_assessment(s) \in DOMAIN AssessmentEdges

C31_RecommendationAdmitted ==
    /\ (pc = "assess_understanding" /\ Truthy(st.learner_response))
         => NextActionOutcomes(st) \subseteq StateNextActions \cup {NONE}
    /\ ~(assessed /\ pc = "raised" /\ fault = "validation")

\* C32: every tool that takes a tenant identifier is invoked with the tenant
\* of the invoking session, whatever tenant the oracle wrote into the
\* arguments of the request.
C32_SessionIdentifiersUsed ==
    cyc.tenants \subseteq {SessionTenant}

\* C33: in a session started through run() or continue_with_response(),
\* routing after intent detection never selects the key other, and the
\* other_entry stage is never entered.
C33_OtherNeverSelected ==
    /\ pc # "other_entry"
    /\ (api # "idle" /\ pc \notin BeforeIntent \cup {"raised"})
         => route_by_intent(st) # "other"

\* C33 witness: intent detection has run on a question that is not empty and
\* the session has been routed to the learning path
C33_Witness ==
    /\ api = "run"
    /\ pc = "evaluate_baseline"
    /\ st.workflow_stage = "intent_detected"
    /\ Truthy(st.question_text)
    /\ route_by_intent(st) = "learn"

\* C34: if the teacher produces no follow-up content during the
\* adaptive_followup stage, the explanation of the session after the stage is
\* the one before it: a stage that ends with nothing produced (the agent's
\* explanation unset) leaves the explanation as it was.
C34_FollowupKeepsExplanation ==
    [][ ( /\ pc = "adaptive_followup"
          /\ pc' = "create_comprehension_check"
          /\ st'.explanation = NONE )
        => st'.explanation = st.explanation ]_vars

\* the tool whose observation a list slot of the assessor's result holds
SlotTool(id) == AllRequests(cyc.messages)[id].name

\* C35: in the assessor's result extraction key_points_understood only ever
\* receives the observation of extract_key_points and misunderstandings only
\* ever receives the observation of identify_misunderstandings, whatever the
\* observations contain (empty lists included).
C35_ListsFromTheirTools ==
    (cyc.at = "END" /\ cyc.agent = "knowledge_assessor")
    => /\ cyc.key_points_understood # 0
            => SlotTool(cyc.key_points_understood) = "extract_key_points"
       /\ cyc.misunderstandings # 0
            => SlotTool(cyc.misunderstandings) = "identify_misunderstandings"

\* the parsed observations of the named tool
ObservationsOf(name) ==
    { i \in 1..Len(ParsedObservations) :
        AllRequests(cyc.messages)[ParsedObservations[i].tool_call_id].name = name }

\* C36: after a validate_content invocation in which validate_against_sources
\* completed successfully, validation_result holds the verdict of that action
\* (its verified flag and confidence score) and is not unset.
C36_VerdictStored ==
    ( /\ cyc.at = "END"
      /\ cyc.agent = "content_validator"
      /\ cyc.task_type = "validate_content"
      /\ ObservationsOf("validate_against_sources") # {} )
    => /\ cyc.output # 0
       /\ AllRequests(cyc.messages)[cyc.output].name = "validate_against_sources"

\* C37: after a progress invocation (analyze_efficiency) in which
\* calculate_efficiency_metrics completed successfully, the efficiency
\* metrics handed back, which the progress entry stage stores as
\* learning_efficiency, are the metrics that action computed.
C37_EfficiencyStored ==
    ( /\ cyc.at = "END"
      /\ cyc.agent = "progress_tracker"
      /\ cyc.task_type = "analyze_efficiency"
      /\ ObservationsOf("calculate_efficiency_metrics") # {} )
    => /\ cyc.output # 0
       /\ AllRequests(cyc.messages)[cyc.output].name = "calculate_efficiency_metrics"

\* the session state with the fallback of _route_after_assessment in force
\* (no next_action) and every value of the fields that fallback reads
FallbackStates ==
    { [ st EXCEPT !.next_action = NONE, !.assessment_result = a,
                  !.retry_count = r, !.max_retries = m ] :
        a \in AssessmentResults \cup {NONE},
        r \in 0..(DefaultMaxRetries + 1),
        m \in {0, 1, DefaultMaxRetries} }

\* C38: for every assessment result (one of the three understanding values,
\* or unset) and every retry_count and max_retries, decide_next_action and the
\* fallback branch of _route_after_assessment choose the same next action.
C38_FallbackAgreesWithTool ==
    \A s \in FallbackStates :
        route_after_assessment(s)
          = decide_next_action(s.assessment_result, s.retry_count, s.max_retries)

\* the (learner, topic, tenant) keys of the knowledge-gap table
GapKeys == Learners \X Topics \X Tenants

\* C39: after any sequence of record_knowledge_gap and resolve_knowledge_gap
\* calls there is at most one unresolved knowledge gap per (learner, topic,
\* tenant): a call adds a row only for a key that has no unresolved gap, and
\* recording a gap for a key that has one updates that gap and adds no row.
C39_OneUnresolvedGapPerKey ==
    [][ /\ \A k \in GapKeys :
             Cardinality(UnresolvedGaps(db'.gaps, k[1], k[3], k[2])) <= 1
        /\ Len(db'.gaps) > Len(db.gaps)
             => \E k \in GapKeys :
                  /\ UnresolvedGaps(db.gaps, k[1], k[3], k[2]) = {}
                  /\ UnresolvedGaps(db'.gaps, k[1], k[3], k[2]) = {Len(db'.gaps)}
      ]_vars

\* C39 witness: a gap was recorded, recorded again with another description,
\* resolved, and recorded anew for the same key
C39_Witness ==
    /\ Len(db.gaps) = 2
    /\ db.gaps[1].resolved
    /\ db.gaps[1].gap_description = "second description"
    /\ ~db.gaps[2].resolved
    /\ db.gaps[2].learner_id = db.gaps[1].learner_id
    /\ db.gaps[2].tenant_id = db.gaps[1].tenant_id

\* C40: save_session_data is idempotent for a session: however many times it
\* is called on the state of the session, at most one question record, one
\* explanation record and one comprehension-check record are created; each
\* record refers to an existing record of the table it depends on (question
\* before explanation, explanation before check); and a call made right
\* after another changes nothing.
C40_SaveIdempotent ==
    /\ Len(db.questions) <= 1
    /\ Len(db.explanations) <= 1
    /\ Len(db.checks) <= 1
    /\ \A i \in 1..Len(db.explanations) :
         db.explanations[i].question_id \in 1..Len(db.questions)
    /\ \A i \in 1..Len(db.checks) :
         db.checks[i].explanation_id \in 1..Len(db.explanations)
    /\ save_session_data(save_session_data(db)) = save_session_data(db)

\* C40 witness: repeated calls have left one record in each table, and the
\* explanation of the session has changed since its record was saved
C40_Witness ==
    /\ db.saves >= 2
    /\ Len(db.questions) = 1
    /\ Len(db.explanations) = 1
    /\ Len(db.checks) = 1
    /\ db.sess.explanation # db.explanations[1].explanation_text

====
